---- MODULE Spec2Model ----
(***************************************************************************)
(* ssh-rev-exec: the agent-side per-connection pipeline of rev_agent.rs    *)
(* (frame reader, router, session, reply writer under select_ok), with the *)
(* extension envelope of ssh_agent.rs and the RPC vocabulary of rpc.rs.    *)
(* Bytes are naturals 0..255, byte strings are sequences of them.          *)
(***************************************************************************)
EXTENDS Integers, Sequences, FiniteSets, TLC

(* ------------------------------ bounds -------------------------------- *)
\* request frames one client connection sends
MaxReq == 3
\* request frames a client that sends only ssh-rev-exec requests sends
MaxRevExec == 4
\* request frames a client sends that opens with Exec and Watch, as the exec
\* driver does, and goes on polling with Watch among pass-through requests
MaxSession == 5
\* bytes the child writes to each of stdout / stderr
MaxOut == 1
\* chunks the child writes to its stdout under the exec driver
MaxDriverOut == 2
\* chunks the exec driver reads from its local stdin before end of file
MaxStdin == 1
\* messages encoded into one byte stream for the frame decoder
MaxFrames == 2
\* bytes one read adds to the frame decoder's buffer
MaxChunk == 3
\* length of the byte strings given to the Event decoder
MaxEventLen == 5
\* replies an arbitrary peer sends to the exec driver
MaxPeer == 3
\* chunks a pipe of the child holds before a write to it blocks
PipeCapacity == 1
\* Stdin requests the driver's stdin loop sends
MaxPump == 4

(* ------------------------- program constants -------------------------- *)
SSH_AGENT_FAILURE == 5
SSH_AGENT_SUCCESS == 6
SSH_AGENTC_EXTENSION == 27
SSH_AGENT_EXTENSION_FAILURE == 28
\* mpsc::channel(100)
ChannelCapacity == 100
\* size_of::<u32>()
SizeOfU32 == 4
\* read_buf capacity of one stdout / stderr read
ReadBufCapacity == 4096

\* b"ssh-rev-exec.1@koba789.com"
EXTENSION_TYPE ==
  << 115, 115, 104, 45, 114, 101, 118, 45, 101, 120, 101, 99, 46, 49, 64,
     107, 111, 98, 97, 55, 56, 57, 46, 99, 111, 109 >>

\* OpCode / EventCode discriminants
OpCodeOf(name) ==
  CASE name = "Exec" -> 0 [] name = "Stdin" -> 1 [] name = "Watch" -> 2

EventCodeOf(name) ==
  CASE name = "Cancelled" -> 0 [] name = "Stdout" -> 1
    [] name = "Stderr" -> 2 [] name = "Exited" -> 3

(* ----------------------------- messages ------------------------------- *)
Msg(t, c) == [message_type |-> t, contents |-> c]

\* Message::failure()
Failure == Msg(SSH_AGENT_FAILURE, << >>)

\* Message::extension_failure()
ExtensionFailure == Msg(SSH_AGENT_EXTENSION_FAILURE, << >>)

\* Message { message_type: SSH_AGENT_SUCCESS, contents: Bytes::new() }
SuccessEmpty == Msg(SSH_AGENT_SUCCESS, << >>)

\* Message { message_type: SSH_AGENT_SUCCESS, contents: event.into_bytes() }
SuccessEvent(bytes) == Msg(SSH_AGENT_SUCCESS, bytes)

Drop(s, n) == SubSeq(s, n + 1, Len(s))

Take(s, n) == SubSeq(s, 1, n)

\* Buf::get_u32 on the first four bytes (big endian); a value of 2^31 or more
\* is held as 2^31 - 1, which like it exceeds the length of every buffer here
GetU32(b) ==
  IF b[1] >= 128 THEN 2147483647
  ELSE b[1] * 16777216 + b[2] * 65536 + b[3] * 256 + b[4]

\* BufMut::put_u32 (of a value below 2^31)
PutU32(n) ==
  << (n \div 16777216) % 256, (n \div 65536) % 256, (n \div 256) % 256, n % 256 >>

\* Buf::get_i32: two's complement, big endian
GetI32(b) ==
  IF b[1] >= 128
  THEN -((255 - b[1]) * 16777216 + (255 - b[2]) * 65536
         + (255 - b[3]) * 256 + (255 - b[4])) - 1
  ELSE b[1] * 16777216 + b[2] * 65536 + b[3] * 256 + b[4]

\* BufMut::put_i32: two's complement, big endian
PutI32(n) ==
  IF n >= 0 THEN PutU32(n)
  ELSE LET m == PutU32(-(n + 1)) IN [ i \in 1..4 |-> 255 - m[i] ]

(* ------------------------ extension envelope -------------------------- *)
\* impl TryFrom<Bytes> for Extension
ExtensionTryFrom(bytes) ==
  IF Len(bytes) < SizeOfU32
  THEN [ok |-> FALSE, extension_type |-> << >>, contents |-> << >>]
  ELSE LET ext_type_len == GetU32(bytes)
           rest == Drop(bytes, SizeOfU32)
       IN IF Len(rest) < ext_type_len
          THEN [ok |-> FALSE, extension_type |-> << >>, contents |-> << >>]
          ELSE [ok |-> TRUE,
                extension_type |-> Take(rest, ext_type_len),
                contents |-> Drop(rest, ext_type_len)]

\* impl From<Extension> for Bytes
ExtensionIntoBytes(extension_type, contents) ==
  PutU32(Len(extension_type)) \o extension_type \o contents

(* --------------------------- RPC vocabulary --------------------------- *)
\* {"cmd":"a","args":[],"envs":{},"cwd":null}
ExecJson ==
  << 123, 34, 99, 109, 100, 34, 58, 34, 97, 34, 44, 34, 97, 114, 103, 115,
     34, 58, 91, 93, 44, 34, 101, 110, 118, 115, 34, 58, 123, 125, 44, 34,
     99, 119, 100, 34, 58, 110, 117, 108, 108, 125 >>

\* serde_json::from_slice::<Exec>: the descriptors that deserialize
JsonIsExec(bytes) == bytes \in {ExecJson}

\* impl TryFrom<Bytes> for Request
RequestTryFrom(bytes) ==
  IF bytes = << >> THEN [op |-> "Err", data |-> << >>]
  ELSE LET code == bytes[1]
           rest == Drop(bytes, 1)
       IN CASE code = OpCodeOf("Exec") ->
                 IF JsonIsExec(rest) THEN [op |-> "Exec", data |-> rest]
                 ELSE [op |-> "Err", data |-> << >>]
            [] code = OpCodeOf("Stdin") -> [op |-> "Stdin", data |-> rest]
            [] code = OpCodeOf("Watch") -> [op |-> "Watch", data |-> << >>]
            [] OTHER -> [op |-> "Err", data |-> << >>]

\* Request::into_bytes
RequestIntoBytes(op, data) == << OpCodeOf(op) >> \o data

\* build_request_message
BuildRequestMessage(op, data) ==
  Msg(SSH_AGENTC_EXTENSION,
      ExtensionIntoBytes(EXTENSION_TYPE, RequestIntoBytes(op, data)))

\* Event::into_bytes
EventIntoBytes(name, data) ==
  IF name = "Exited" THEN << EventCodeOf(name) >> \o PutI32(data)
  ELSE IF name = "Cancelled" THEN << EventCodeOf(name) >>
  ELSE << EventCodeOf(name) >> \o data

\* EventTryFrom taking a short Exited payload as status 0
EventTryFromLax(bytes) ==
  LET bad == [ok |-> FALSE, name |-> "Err", data |-> << >>, code |-> 0]
  IN IF bytes = << >> THEN bad
     ELSE IF bytes[1] = EventCodeOf("Cancelled")
     THEN [bad EXCEPT !.ok = TRUE, !.name = "Cancelled"]
     ELSE IF bytes[1] = EventCodeOf("Stdout")
     THEN [bad EXCEPT !.ok = TRUE, !.name = "Stdout", !.data = Drop(bytes, 1)]
     ELSE IF bytes[1] = EventCodeOf("Stderr")
     THEN [bad EXCEPT !.ok = TRUE, !.name = "Stderr", !.data = Drop(bytes, 1)]
     ELSE IF bytes[1] = EventCodeOf("Exited")
     THEN IF Len(bytes) - 1 < SizeOfU32
          THEN [bad EXCEPT !.ok = TRUE, !.name = "Exited"]
          ELSE [bad EXCEPT !.ok = TRUE, !.name = "Exited",
                           !.code = GetI32(Drop(bytes, 1))]
     ELSE bad

\* impl TryFrom<Bytes> for Event
EventTryFrom(bytes) ==
  LET bad == [ok |-> FALSE, name |-> "Err", data |-> << >>, code |-> 0]
  IN IF bytes = << >> THEN bad
     ELSE IF bytes[1] = EventCodeOf("Cancelled")
     THEN [bad EXCEPT !.ok = TRUE, !.name = "Cancelled"]
     ELSE IF bytes[1] = EventCodeOf("Stdout")
     THEN [bad EXCEPT !.ok = TRUE, !.name = "Stdout", !.data = Drop(bytes, 1)]
     ELSE IF bytes[1] = EventCodeOf("Stderr")
     THEN [bad EXCEPT !.ok = TRUE, !.name = "Stderr", !.data = Drop(bytes, 1)]
     ELSE IF bytes[1] = EventCodeOf("Exited")
     THEN IF Len(bytes) - 1 < SizeOfU32 THEN bad
          ELSE [bad EXCEPT !.ok = TRUE, !.name = "Exited",
                           !.code = GetI32(Drop(bytes, 1))]
     ELSE bad

(* ------------------------------- state -------------------------------- *)
VARIABLES
  reqs,         \* request frames read from the client, in arrival order
  slots,        \* oneshot reply slot of each request
  wire,         \* reply frames written to the client: <<request, message>>
  replyQ,       \* reply_tx / reply_rx: slots queued for the reply writer
  requestQ,     \* request_tx / request_rx: requests queued for the router
  revExtQ,      \* rev_ext_tx / rev_ext_rx: payloads queued for the session
  peek_buf,     \* the session's one-slot peek buffer
  task,         \* the four sub-tasks given to select_ok
  sess,         \* where the session is: handle_exec, handle_stdin_watch, watch
  watchCur,     \* the Watch whose select is pending (0: none)
  forwarding,   \* the request the router awaits the upstream's reply for (0: none)
  upstream,     \* "none" (not configured) or "open"
  upstreamLog,  \* the frames written to the upstream agent
  running,      \* Running { child, stdin, stdout, stderr }
  proc,         \* the child process and its pipes
  handed,       \* requests the router sent to the session, in order
  processed,    \* requests the session took up, in order
  spawned,      \* children spawned on the connection
  routed,       \* how many requests the router has taken up
  duringWatch,  \* Stdin requests read while a Watch was pending in the session
  early,        \* <<request, Watch>>: answered by the upstream while the
                \* Watch, read before it, was pending in the session
  drv,          \* the exec driver connected as the client (pc "none": another
                \* client)
  codec,        \* a byte stream under ssh_agent::Codec (phase "idle": the
                \* frames are taken as decoded)
  evt,          \* an Event put through into_bytes and try_from (phase "idle":
                \* none)
  flow          \* the session, the child and the pipes between them, with
                \* the capacity of the pipes (phase "idle": writes to the
                \* child's stdin are taken as whole)

vars ==
  << reqs, slots, wire, replyQ, requestQ, revExtQ, peek_buf, task, sess,
     watchCur, forwarding, upstream, upstreamLog, running, proc, handed,
     processed, spawned, routed, duringWatch, early, drv, codec,
     evt, flow >>

Tasks == {"reply_loop", "pipe_loop", "rev_ext", "router"}

\* the frames a client sends
PassThroughFrame == Msg(11, << >>)

ShortEnvelopeFrame == Msg(SSH_AGENTC_EXTENSION, << 0, 0 >>)

LongTypeLenFrame == Msg(SSH_AGENTC_EXTENSION, << 0, 0, 0, 2, 65 >>)

UnknownTypeFrame ==
  Msg(SSH_AGENTC_EXTENSION, ExtensionIntoBytes(<< 65 >>, << 2 >>))

ExecFrame == BuildRequestMessage("Exec", ExecJson)

StdinEofFrame == BuildRequestMessage("Stdin", << >>)

StdinFrame == BuildRequestMessage("Stdin", << 97 >>)

WatchFrame == BuildRequestMessage("Watch", << >>)

BadOpFrame ==
  Msg(SSH_AGENTC_EXTENSION, ExtensionIntoBytes(EXTENSION_TYPE, << 9 >>))

ReqFrames ==
  { PassThroughFrame, ShortEnvelopeFrame, LongTypeLenFrame, UnknownTypeFrame,
    ExecFrame, StdinEofFrame, StdinFrame, WatchFrame, BadOpFrame }

\* the frames of the recognized ext_type
RevExecFrames ==
  { ExecFrame, StdinEofFrame, StdinFrame, WatchFrame, BadOpFrame }

\* the frames a client sends in a session it has opened
SessionFrames == { WatchFrame, PassThroughFrame }

\* the frames a client that opens a session at once may send next
ScriptFrames(sent) ==
  IF sent = << >> THEN { ExecFrame } ELSE SessionFrames

\* the frames the client may send next, having sent `sent`
ClientFrames(sent) ==
  { f \in ReqFrames :
      \/ Len(sent) < MaxReq
      \/ /\ Len(sent) < MaxRevExec
         /\ \A k \in 1..Len(sent) : sent[k] \in RevExecFrames
         /\ f \in RevExecFrames }

\* the upstream agent's answer to a forwarded request
UpstreamAnswer == Msg(12, << 0, 0, 0, 0 >>)

\* exit codes of the child
ExitCodes == {42}

\* how the child ends: with an exit code, or killed by a signal, which leaves
\* ExitStatus::code() None (the latter under the exec driver only)
ExitStatuses(d) ==
  { [signaled |-> FALSE, code |-> c] : c \in ExitCodes }
  \cup (IF d.pc # "none" THEN { [signaled |-> TRUE, code |-> 0] } ELSE {})

\* the chunk the child writes in one write
OutChunk == << 104 >>

\* the n-th chunk the child writes to a stream: no two chunks are alike
ChildChunk(stream, n) ==
  IF stream = "stdout" THEN << OutChunk[1] + n >> ELSE << OutChunk[1] + 16 + n >>

EmptySlot == [st |-> "empty", msg |-> Msg(0, << >>)]

Cur ==
  [ reqs |-> reqs, slots |-> slots, wire |-> wire, replyQ |-> replyQ,
    requestQ |-> requestQ, revExtQ |-> revExtQ, peek_buf |-> peek_buf,
    task |-> task, sess |-> sess, watchCur |-> watchCur,
    forwarding |-> forwarding, upstream |-> upstream,
    upstreamLog |-> upstreamLog, running |-> running, proc |-> proc,
    handed |-> handed, processed |-> processed, spawned |-> spawned,
    routed |-> routed, duringWatch |-> duringWatch, early |-> early,
    drv |-> drv, codec |-> codec, evt |-> evt, flow |-> flow ]

Range(s) == { s[i] : i \in 1..Len(s) }

\* oneshot::Sender::send
Fill(sl, id, msg) == [sl EXCEPT ![id] = [st |-> "full", msg |-> msg]]

\* a oneshot::Sender dropped before it was used
DropSenders(sl, ids) ==
  [ i \in 1..Len(sl) |->
      IF i \in ids /\ sl[i].st = "empty"
      THEN [st |-> "dropped", msg |-> sl[i].msg] ELSE sl[i] ]

\* SelectOk ending the pipeline when a sub-task ends at all, Ok or Err
SelectAny(tk) ==
  IF \E t \in Tasks : tk[t] \in {"ok", "err"}
  THEN [ t \in Tasks |-> IF tk[t] = "run" THEN "dropped" ELSE tk[t] ]
  ELSE tk

\* future::select_ok: the first sub-task that ends Ok ends the pipeline and the
\* others are dropped; a sub-task that ends Err is dropped alone
SelectOk(tk) ==
  IF \E t \in Tasks : tk[t] = "ok"
  THEN [ t \in Tasks |-> IF tk[t] = "run" THEN "dropped" ELSE tk[t] ]
  ELSE tk

\* KillOnDrop without kill_on_drop: the child outlives its handle
KillOnDropOff(run, p) == p

\* command.kill_on_drop(true): dropping the Child handle kills a live child
KillOnDrop(run, p) ==
  IF run.child = "owned" /\ p.state = "alive"
  THEN [p EXCEPT !.state = "killed"] ELSE p

\* drop of Running: the handles are closed
DropRunning(run) ==
  [ child  |-> IF run.child = "owned" THEN "dropped" ELSE run.child,
    stdin  |-> IF run.stdin = "open" THEN "closed" ELSE run.stdin,
    stdout |-> IF run.stdout = "open" THEN "closed" ELSE run.stdout,
    stderr |-> IF run.stderr = "open" THEN "closed" ELSE run.stderr ]

\* the state after a step: select_ok is applied and whatever a finished or
\* dropped sub-task owned is dropped with it
Commit(n) ==
  LET tk == SelectOk(n.task)
      sGone == tk["rev_ext"] # "run"
      rGone == tk["router"] # "run"
      wGone == tk["reply_loop"] # "run"
      held ==
        (IF sGone
         THEN { e.id : e \in Range(n.revExtQ) \cup Range(n.peek_buf) }
              \cup {n.watchCur}
         ELSE {})
        \cup (IF rGone THEN Range(n.requestQ) \cup {n.forwarding} ELSE {})
  IN /\ task' = tk
     /\ reqs' = n.reqs
     /\ slots' = DropSenders(n.slots, held)
     /\ wire' = n.wire
     /\ replyQ' = IF wGone THEN << >> ELSE n.replyQ
     /\ requestQ' = IF rGone THEN << >> ELSE n.requestQ
     /\ revExtQ' = IF sGone THEN << >> ELSE n.revExtQ
     /\ peek_buf' = IF sGone THEN << >> ELSE n.peek_buf
     /\ sess' = IF sGone THEN "gone" ELSE n.sess
     /\ watchCur' = IF sGone THEN 0 ELSE n.watchCur
     /\ forwarding' = IF rGone THEN 0 ELSE n.forwarding
     /\ upstream' = n.upstream
     /\ upstreamLog' = n.upstreamLog
     /\ running' = IF sGone THEN DropRunning(n.running) ELSE n.running
     /\ proc' = IF sGone THEN KillOnDrop(n.running, n.proc) ELSE n.proc
     /\ handed' = n.handed
     /\ processed' = n.processed
     /\ spawned' = n.spawned
     /\ routed' = n.routed
     /\ duringWatch' = n.duringWatch
     /\ early' = n.early
     /\ drv' = n.drv
     /\ codec' = n.codec
     /\ evt' = n.evt
     /\ flow' = n.flow

\* the client is not the exec driver
NoDriver ==
  [pc |-> "none", pump |-> "idle", rcvd |-> 0, sock |-> << >>, nin |-> 0,
   out |-> << >>, err |-> << >>, code |-> 0]

\* handle_client before the first frame is read
AgentInit ==
  /\ reqs = << >>
  /\ slots = << >>
  /\ wire = << >>
  /\ replyQ = << >>
  /\ requestQ = << >>
  /\ revExtQ = << >>
  /\ peek_buf = << >>
  /\ task = [t \in Tasks |-> "run"]
  /\ sess = "handle_exec"
  /\ watchCur = 0
  /\ forwarding = 0
  /\ upstream \in {"none", "open"}
  /\ upstreamLog = << >>
  /\ running = [child |-> "none", stdin |-> "none", stdout |-> "none",
                stderr |-> "none"]
  /\ proc = [state |-> "none", code |-> 0, out |-> << >>, err |-> << >>,
             nout |-> 0, nerr |-> 0, stdin |-> << >>, stdinEof |-> FALSE,
   signaled |-> FALSE]
  /\ handed = << >>
  /\ processed = << >>
  /\ spawned = 0
  /\ routed = 0
  /\ duringWatch = {}
  /\ early = {}

\* the frames of the connection are taken as FramedRead yields them
NoCodec ==
  [phase |-> "idle", msgs |-> << >>, stream |-> << >>, src |-> << >>,
   out |-> << >>, last |-> "new"]

\* what try_from has not produced yet
NoEvent == [ok |-> FALSE, name |-> "none", data |-> << >>, code |-> 0]

\* no Event is being converted
NoEvt == [phase |-> "idle", ev |-> NoEvent, bytes |-> << >>, back |-> NoEvent]

\* the pipes of the child are not followed
NoFlow ==
  [phase |-> "idle", requests |-> << >>, peek_buf |-> "none", pos |-> "next",
   stdin |-> 0, held |-> 0, stdout |-> 0, replies |-> << >>, pumped |-> 0]

Init ==
  AgentInit /\ drv = NoDriver /\ codec = NoCodec /\ evt = NoEvt /\ flow = NoFlow

\* Route with the ext_type comparison left out
RouteAnyType(request) ==
  IF request.message_type = SSH_AGENTC_EXTENSION
  THEN IF ~ExtensionTryFrom(request.contents).ok THEN "failure" ELSE "rev_ext"
  ELSE "upstream"

\* Route with an extension whose envelope does not decode passed on to the
\* upstream
RouteMalformedUpstream(request) ==
  IF request.message_type = SSH_AGENTC_EXTENSION
  THEN LET ext == ExtensionTryFrom(request.contents)
       IN IF ~ext.ok THEN "upstream"
          ELSE IF ext.extension_type # EXTENSION_TYPE THEN "failure"
          ELSE "rev_ext"
  ELSE "upstream"

\* Route with an extension of another ext_type passed on to the upstream
RouteUnknownUpstream(request) ==
  IF request.message_type = SSH_AGENTC_EXTENSION
  THEN LET ext == ExtensionTryFrom(request.contents)
       IN IF ~ext.ok THEN "failure"
          ELSE IF ext.extension_type # EXTENSION_TYPE THEN "upstream"
          ELSE "rev_ext"
  ELSE "upstream"

\* Router::handle_request: where a request goes
Route(request) ==
  IF request.message_type = SSH_AGENTC_EXTENSION
  THEN LET ext == ExtensionTryFrom(request.contents)
       IN IF ~ext.ok THEN "failure"
          ELSE IF ext.extension_type # EXTENSION_TYPE THEN "failure"
          ELSE "rev_ext"
  ELSE "upstream"

(* --------------------------- frame reader ----------------------------- *)
\* pipe_loop_fut, the loop body: the frame f is read in state c, its slot is
\* queued for the writer and the request for the router
PipeFrame(f, c) ==
  LET id == Len(reqs) + 1
      n1 == [c EXCEPT !.reqs = Append(reqs, f),
                      !.slots = Append(slots, EmptySlot),
                      !.replyQ = Append(replyQ, id),
                      !.duringWatch =
                         IF f.message_type = SSH_AGENTC_EXTENSION
                            /\ RequestTryFrom(ExtensionTryFrom(f.contents).contents).op = "Stdin"
                            /\ Route(f) = "rev_ext"
                            /\ sess = "watch" /\ running.stdin = "open"
                         THEN duringWatch \cup {id} ELSE duringWatch]
  IN IF task["router"] = "run"
     THEN Commit([n1 EXCEPT !.requestQ = Append(requestQ, id)])
     ELSE \* request_tx.send fails: the router's receiver is gone
          Commit([n1 EXCEPT !.slots = DropSenders(n1.slots, {id}),
                            !.task["pipe_loop"] = "err"])

\* pipe_loop_fut: one frame read from a client that sends what it likes
PipeRead ==
  /\ task["pipe_loop"] = "run"
  /\ Len(replyQ) < ChannelCapacity
  /\ Len(requestQ) < ChannelCapacity
  /\ \E f \in ClientFrames(reqs) : PipeFrame(f, Cur)

\* incoming.try_next() yields None: the client closed its sending side
PipeEof ==
  /\ task["pipe_loop"] = "run"
  /\ Commit([Cur EXCEPT !.task["pipe_loop"] = "ok"])

\* incoming.try_next() fails: a zero-length frame or an I/O error
PipeDecodeError ==
  /\ task["pipe_loop"] = "run"
  /\ Commit([Cur EXCEPT !.task["pipe_loop"] = "err"])

(* --------------------------- reply writer ----------------------------- *)
\* ReplyLoopNext taking whichever queued slot has resolved
ReplyLoopAny(q, sl) ==
  IF \E k \in 1..Len(q) : sl[q[k]].st # "empty"
  THEN CHOOSE k \in 1..Len(q) :
         /\ sl[q[k]].st # "empty"
         /\ \A j \in 1..Len(q) : sl[q[j]].st # "empty" => j <= k
  ELSE 1

\* ReplyLoopNext awaiting the slot queued last
ReplyLoopLast(q, sl) == Len(q)

\* the position in the queue of the slot the writer awaits
ReplyLoopNext(q, sl) == 1

\* ReplyFrame answering a dropped slot with an empty SUCCESS
ReplyFrameSuccess(s) == IF s.st = "full" THEN s.msg ELSE SuccessEmpty

\* the frame written for a resolved slot
ReplyFrame(s) == IF s.st = "full" THEN s.msg ELSE Failure

\* reply_loop_fut: the awaited slot resolves and its frame is written
ReplyWrite ==
  /\ task["reply_loop"] = "run"
  /\ replyQ # << >>
  /\ LET k == ReplyLoopNext(replyQ, slots)
         id == replyQ[k]
     IN /\ slots[id].st # "empty"
        /\ Commit([Cur EXCEPT
             !.wire = Append(wire, << id, ReplyFrame(slots[id]) >>),
             !.replyQ = Take(replyQ, k - 1) \o Drop(replyQ, k)])

\* reply_rx.recv() yields None: the reader and its reply_tx are gone
ReplyEnd ==
  /\ task["reply_loop"] = "run"
  /\ replyQ = << >>
  /\ task["pipe_loop"] # "run"
  /\ Commit([Cur EXCEPT !.task["reply_loop"] = "ok"])

(* ------------------------------ router -------------------------------- *)
\* Router::run: one request taken from the queue and handled
RouterHandle ==
  /\ task["router"] = "run"
  /\ forwarding = 0
  /\ requestQ # << >>
  /\ LET id == Head(requestQ)
         request == reqs[id]
         n1 == [Cur EXCEPT !.requestQ = Tail(requestQ), !.routed = routed + 1]
         failed == [n1 EXCEPT !.slots = DropSenders(slots, {id}),
                              !.task["router"] = "err"]
     IN CASE Route(request) = "failure" ->
               Commit([n1 EXCEPT !.slots = Fill(slots, id, Failure)])
          [] Route(request) = "rev_ext" ->
               IF task["rev_ext"] = "run"
               THEN /\ Len(revExtQ) < ChannelCapacity
                    /\ Commit([n1 EXCEPT
                         !.revExtQ = Append(revExtQ,
                            [id |-> id,
                             bytes |-> ExtensionTryFrom(request.contents).contents]),
                         !.handed = Append(handed, id)])
               ELSE \* rev_ext.send fails: the session's receiver is gone
                    Commit(failed)
          [] Route(request) = "upstream" ->
               \* Router::forward_to_upstream
               CASE upstream = "none" ->
                      Commit([n1 EXCEPT !.slots = Fill(slots, id, Failure)])
                 [] upstream = "open" ->
                      \/ \* upstream.write.send succeeds
                         Commit([n1 EXCEPT
                           !.upstreamLog = Append(upstreamLog, request),
                           !.forwarding = id])
                      \/ \* upstream.write.send fails: the upstream has gone
                         Commit(failed)

\* forward_to_upstream: upstream.read.try_next() yields the reply frame
UpstreamReply ==
  /\ task["router"] = "run"
  /\ forwarding # 0
  /\ upstream = "open"
  /\ Commit([Cur EXCEPT !.slots = Fill(slots, forwarding, UpstreamAnswer),
                        !.forwarding = 0,
                        !.early =
                           IF sess = "watch" /\ watchCur < forwarding
                           THEN early \cup { << forwarding, watchCur >> }
                           ELSE early])

\* forward_to_upstream: the upstream agent closes its end and try_next()
\* yields None, "upstream agent has gone"
UpstreamGone ==
  /\ task["router"] = "run"
  /\ forwarding # 0
  /\ upstream = "open"
  /\ Commit([Cur EXCEPT !.slots = DropSenders(slots, {forwarding}),
                        !.task["router"] = "err"])

\* Router::run: requests.recv() yields None, the reader is gone
RouterEnd ==
  /\ task["router"] = "run"
  /\ forwarding = 0
  /\ requestQ = << >>
  /\ task["pipe_loop"] # "run"
  /\ Commit([Cur EXCEPT !.task["router"] = "ok"])

(* ------------------------------ session ------------------------------- *)
\* Running as handle_exec builds it from what RevExt::exec returns
SpawnedRunning ==
  [child |-> "owned", stdin |-> "open", stdout |-> "open", stderr |-> "open"]

\* the child command.spawn() starts, its three streams piped
SpawnedProc ==
  [state |-> "alive", code |-> 0, out |-> << >>, err |-> << >>,
   nout |-> 0, nerr |-> 0, stdin |-> << >>, stdinEof |-> FALSE,
   signaled |-> FALSE]

\* RevExt::handle_exec: one request taken while no child runs
HandleExec ==
  /\ task["rev_ext"] = "run"
  /\ sess = "handle_exec"
  /\ revExtQ # << >>
  /\ LET item == Head(revExtQ)
         n1 == [Cur EXCEPT !.revExtQ = Tail(revExtQ),
                           !.processed = Append(processed, item.id)]
     IN IF RequestTryFrom(item.bytes).op = "Exec"
        THEN \/ \* command.spawn() succeeds
                Commit([n1 EXCEPT !.running = SpawnedRunning,
                                  !.proc = SpawnedProc,
                                  !.spawned = spawned + 1,
                                  !.slots = Fill(slots, item.id, SuccessEmpty),
                                  !.sess = "handle_stdin_watch"])
             \/ \* command.spawn() fails
                Commit([n1 EXCEPT !.slots = DropSenders(slots, {item.id}),
                                  !.task["rev_ext"] = "err"])
        ELSE Commit([n1 EXCEPT !.slots = Fill(slots, item.id, ExtensionFailure)])

\* NextInput reading the channel before the peek buffer
NextInputChannelFirst(peek, q) ==
  IF q # << >>
  THEN [item |-> Head(q), peek |-> peek, q |-> Tail(q)]
  ELSE [item |-> peek[1], peek |-> << >>, q |-> q]

\* the loop's input: the peeked request if there is one, else the channel
NextInput(peek, q) ==
  IF peek # << >>
  THEN [item |-> peek[1], peek |-> << >>, q |-> q]
  ELSE [item |-> Head(q), peek |-> << >>, q |-> Tail(q)]

\* StdinStep that replies to an empty Stdin without taking the handle
StdinStepNoTake(bytes, run, p) ==
  IF run.stdin = "open"
  THEN IF bytes = << >>
       THEN [err |-> FALSE, reply |-> SuccessEmpty, running |-> run,
             proc |-> [p EXCEPT !.stdinEof = TRUE]]
       ELSE IF p.state = "alive"
            THEN [err |-> FALSE, reply |-> SuccessEmpty, running |-> run,
                  proc |-> [p EXCEPT !.stdin = p.stdin \o bytes]]
            ELSE [err |-> TRUE, reply |-> Failure, running |-> run, proc |-> p]
  ELSE [err |-> FALSE, reply |-> ExtensionFailure, running |-> run, proc |-> p]

\* StdinStep with the is_empty test inverted
StdinStepInverted(bytes, run, p) ==
  IF run.stdin = "open"
  THEN IF bytes # << >>
       THEN [err |-> FALSE, reply |-> SuccessEmpty,
             running |-> [run EXCEPT !.stdin = "closed"],
             proc |-> [p EXCEPT !.stdinEof = TRUE]]
       ELSE [err |-> FALSE, reply |-> SuccessEmpty, running |-> run, proc |-> p]
  ELSE [err |-> FALSE, reply |-> ExtensionFailure, running |-> run, proc |-> p]

\* handle_stdin_watch, Request::Stdin
StdinStep(bytes, run, p) ==
  IF run.stdin = "open"
  THEN IF bytes = << >>
       THEN [err |-> FALSE, reply |-> SuccessEmpty,
             running |-> [run EXCEPT !.stdin = "closed"],
             proc |-> [p EXCEPT !.stdinEof = TRUE]]
       ELSE IF p.state = "alive"
            THEN [err |-> FALSE, reply |-> SuccessEmpty, running |-> run,
                  proc |-> [p EXCEPT !.stdin = p.stdin \o bytes]]
            ELSE \* write_all fails: the child's end of the pipe is closed
                 [err |-> TRUE, reply |-> Failure, running |-> run, proc |-> p]
  ELSE [err |-> FALSE, reply |-> ExtensionFailure, running |-> run, proc |-> p]

\* SessionStep that honours an Exec again
SessionStepRespawn(request, run, p, nsp) ==
  CASE request.op = "Exec" ->
         [err |-> FALSE, reply |-> SuccessEmpty,
          running |-> [child |-> "owned", stdin |-> "open", stdout |-> "open",
                       stderr |-> "open"],
          proc |-> [p EXCEPT !.state = "alive", !.stdin = << >>],
          spawned |-> nsp + 1]
    [] request.op = "Stdin" ->
         [err |-> FALSE, reply |-> ExtensionFailure, running |-> run,
          proc |-> p, spawned |-> nsp]
    [] OTHER ->
         [err |-> FALSE, reply |-> ExtensionFailure, running |-> run,
          proc |-> p, spawned |-> nsp]

\* handle_stdin_watch: a request other than Watch, handled to its reply
SessionStep(request, run, p, nsp) ==
  CASE request.op = "Err" ->
         [err |-> FALSE, reply |-> ExtensionFailure, running |-> run,
          proc |-> p, spawned |-> nsp]
    [] request.op = "Stdin" ->
         LET r == StdinStep(request.data, run, p)
         IN [err |-> r.err, reply |-> r.reply, running |-> r.running,
             proc |-> r.proc, spawned |-> nsp]
    [] OTHER ->
         [err |-> FALSE, reply |-> ExtensionFailure, running |-> run,
          proc |-> p, spawned |-> nsp]

\* RevExt::handle_stdin_watch: one request taken while the child is held
HandleStdinWatch ==
  /\ task["rev_ext"] = "run"
  /\ sess = "handle_stdin_watch"
  /\ peek_buf # << >> \/ revExtQ # << >>
  /\ LET i == NextInput(peek_buf, revExtQ)
         request == RequestTryFrom(i.item.bytes)
         n1 == [Cur EXCEPT !.peek_buf = i.peek, !.revExtQ = i.q,
                           !.processed = Append(processed, i.item.id)]
     IN IF request.op = "Watch"
        THEN Commit([n1 EXCEPT !.sess = "watch", !.watchCur = i.item.id])
        ELSE LET r == SessionStep(request, running, proc, spawned)
             IN IF r.err
                THEN Commit([n1 EXCEPT !.slots = DropSenders(slots, {i.item.id}),
                                       !.task["rev_ext"] = "err"])
                ELSE Commit([n1 EXCEPT !.slots = Fill(slots, i.item.id, r.reply),
                                       !.running = r.running,
                                       !.proc = r.proc,
                                       !.spawned = r.spawned])

Min(a, b) == IF a < b THEN a ELSE b

\* StatusCode giving -1 for a child killed by a signal
StatusCodeRaw(p) == IF p.signaled THEN -1 ELSE p.code

\* exit_status.code().unwrap_or_default()
StatusCode(p) == IF p.signaled THEN 0 ELSE p.code

\* WatchPoll that reports the exit before the streams are drained
WatchPollExitFirst(run, p) ==
  LET pending == [ready |-> FALSE, name |-> "none", data |-> << >>, code |-> 0,
                  running |-> run, proc |-> p]
  IN IF p.state = "exited"
     THEN [pending EXCEPT !.ready = TRUE, !.name = "Exited", !.code = p.code]
     ELSE IF run.stdout = "open" /\ p.out # << >>
     THEN [pending EXCEPT
             !.ready = TRUE, !.name = "Stdout", !.data = p.out,
             !.proc = [p EXCEPT !.out = << >>]]
     ELSE IF run.stderr = "open" /\ p.err # << >>
     THEN [pending EXCEPT
             !.ready = TRUE, !.name = "Stderr", !.data = p.err,
             !.proc = [p EXCEPT !.err = << >>]]
     ELSE pending

\* RevExt::watch: the child event that is ready, if one is
WatchPoll(run, p) ==
  LET pending == [ready |-> FALSE, name |-> "none", data |-> << >>, code |-> 0,
                  running |-> run, proc |-> p]
  IN IF run.stdout # "open" /\ run.stderr # "open"
     THEN IF p.state = "exited"
          THEN [pending EXCEPT !.ready = TRUE, !.name = "Exited",
                               !.code = StatusCode(p)]
          ELSE pending
     ELSE IF run.stdout = "open" /\ (p.out # << >> \/ p.state # "alive")
     THEN LET k == Min(Len(p.out), ReadBufCapacity)
          IN [pending EXCEPT
                !.ready = TRUE, !.name = "Stdout", !.data = Take(p.out, k),
                !.running = IF k = 0 THEN [run EXCEPT !.stdout = "closed"] ELSE run,
                !.proc = [p EXCEPT !.out = Drop(p.out, k)]]
     ELSE IF run.stderr = "open" /\ (p.err # << >> \/ p.state # "alive")
     THEN LET k == Min(Len(p.err), ReadBufCapacity)
          IN [pending EXCEPT
                !.ready = TRUE, !.name = "Stderr", !.data = Take(p.err, k),
                !.running = IF k = 0 THEN [run EXCEPT !.stderr = "closed"] ELSE run,
                !.proc = [p EXCEPT !.err = Drop(p.err, k)]]
     ELSE pending

\* the reply that carries an event
EventReply(e) ==
  SuccessEvent(EventIntoBytes(e.name, IF e.name = "Exited" THEN e.code ELSE e.data))

\* Event::Cancelled in its reply
CancelledReply == SuccessEvent(EventIntoBytes("Cancelled", << >>))

\* WatchEvent leaving the session loop once Exited is replied
WatchEventFinish ==
  /\ task["rev_ext"] = "run"
  /\ sess = "watch"
  /\ LET e == WatchPoll(running, proc)
     IN /\ e.ready
        /\ Commit([Cur EXCEPT !.slots = Fill(slots, watchCur, EventReply(e)),
                              !.running = e.running,
                              !.proc = e.proc,
                              !.sess = "handle_stdin_watch",
                              !.watchCur = 0,
                              !.task["rev_ext"] =
                                 IF e.name = "Exited" THEN "ok" ELSE "run"])

\* handle_stdin_watch, Either::Left: the child event wins the select
WatchEvent ==
  /\ task["rev_ext"] = "run"
  /\ sess = "watch"
  /\ LET e == WatchPoll(running, proc)
     IN /\ e.ready
        /\ Commit([Cur EXCEPT !.slots = Fill(slots, watchCur, EventReply(e)),
                              !.running = e.running,
                              !.proc = e.proc,
                              !.sess = "handle_stdin_watch",
                              !.watchCur = 0])

\* handle_stdin_watch, Either::Right: requests.recv() wins the select
WatchCancel ==
  /\ task["rev_ext"] = "run"
  /\ sess = "watch"
  /\ ~WatchPoll(running, proc).ready
  /\ \/ /\ revExtQ # << >>
        /\ Commit([Cur EXCEPT !.peek_buf = << Head(revExtQ) >>,
                              !.revExtQ = Tail(revExtQ),
                              !.slots = Fill(slots, watchCur, CancelledReply),
                              !.sess = "handle_stdin_watch",
                              !.watchCur = 0])
     \/ \* recv() yields None: the loop ends with the next recv()
        /\ revExtQ = << >>
        /\ task["router"] # "run"
        /\ Commit([Cur EXCEPT !.slots = Fill(slots, watchCur, CancelledReply),
                              !.watchCur = 0,
                              !.task["rev_ext"] = "ok"])

\* handle_exec / handle_stdin_watch: requests.recv() yields None
SessionEnd ==
  /\ task["rev_ext"] = "run"
  /\ sess \in {"handle_exec", "handle_stdin_watch"}
  /\ peek_buf = << >>
  /\ revExtQ = << >>
  /\ task["router"] # "run"
  /\ Commit([Cur EXCEPT !.task["rev_ext"] = "ok"])

(* ------------------------------- child -------------------------------- *)
\* chunks the child writes to a stream
OutLimit(stream) ==
  IF drv.pc # "none" /\ stream = "stdout" THEN MaxDriverOut ELSE MaxOut

\* the child writes a chunk to its stdout
ChildStdout ==
  /\ proc.state = "alive"
  /\ proc.nout < OutLimit("stdout")
  /\ Commit([Cur EXCEPT !.proc.out = proc.out \o ChildChunk("stdout", proc.nout),
                        !.proc.nout = proc.nout + 1])

\* the child writes a chunk to its stderr
ChildStderr ==
  /\ proc.state = "alive"
  /\ proc.nerr < OutLimit("stderr")
  /\ Commit([Cur EXCEPT !.proc.err = proc.err \o ChildChunk("stderr", proc.nerr),
                        !.proc.nerr = proc.nerr + 1])

\* the child exits: its ends of the three pipes close
ChildExit ==
  /\ proc.state = "alive"
  /\ \E s \in ExitStatuses(drv) :
       Commit([Cur EXCEPT !.proc.state = "exited", !.proc.code = s.code,
                          !.proc.signaled = s.signaled])

Next ==
  \/ PipeRead \/ PipeEof \/ PipeDecodeError
  \/ ReplyWrite \/ ReplyEnd
  \/ RouterHandle \/ UpstreamReply \/ UpstreamGone \/ RouterEnd
  \/ HandleExec \/ HandleStdinWatch \/ WatchEvent \/ WatchCancel \/ SessionEnd
  \/ ChildStdout \/ ChildStderr \/ ChildExit

\* the steps of the agent's own sub-tasks: a sub-task that can run is polled
WriterNext == ReplyWrite \/ ReplyEnd

RouterNext == RouterHandle \/ UpstreamGone \/ RouterEnd

SessionNext == HandleExec \/ HandleStdinWatch \/ WatchEvent \/ WatchCancel \/ SessionEnd

Spec == Init /\ [][Next]_vars

\* the executor polls every sub-task that is ready
FairSpec ==
  /\ Spec
  /\ WF_vars(WriterNext)
  /\ WF_vars(RouterNext)
  /\ WF_vars(SessionNext)

(* --------------------------- exec driver ------------------------------ *)
\* handle_client has returned: the agent's end of the connection is closed
TornDown == \E t \in Tasks : task[t] = "ok"

\* Outgoing::exec / watch / stdin: a frame sent on the connection
DriverSend(d, f) ==
  IF TornDown THEN [d EXCEPT !.pc = "err"]
  ELSE [d EXCEPT !.sock = Append(d.sock, f)]

\* Incoming::recv: the next reply frame, an event or None
DriverRecvResult(m) ==
  IF m.message_type = SSH_AGENT_SUCCESS
  THEN IF m.contents = << >>
       THEN [ok |-> TRUE, name |-> "None", data |-> << >>, code |-> 0]
       ELSE EventTryFrom(m.contents)
  ELSE [ok |-> FALSE, name |-> "Err", data |-> << >>, code |-> 0]

\* RevExec::exec: the Exec request is sent
DriverExec ==
  /\ drv.pc = "exec"
  /\ LET d == DriverSend(drv, ExecFrame)
     IN Commit([Cur EXCEPT !.drv =
                  IF d.pc = "err" THEN d ELSE [d EXCEPT !.pc = "recv_exec"]])

\* RevExec::exec: the Exec reply is received and the first Watch sent; the
\* event pump and the stdin pump start
DriverRecvExec ==
  /\ drv.pc = "recv_exec"
  /\ \/ /\ drv.rcvd < Len(wire)
        /\ LET r == DriverRecvResult(wire[drv.rcvd + 1][2])
               d == DriverSend([drv EXCEPT !.rcvd = drv.rcvd + 1], WatchFrame)
           IN IF ~r.ok
              THEN Commit([Cur EXCEPT !.drv.rcvd = drv.rcvd + 1,
                                      !.drv.pc = "err"])
              ELSE Commit([Cur EXCEPT !.drv =
                     IF d.pc = "err" THEN d
                     ELSE [d EXCEPT !.pc = "loops", !.pump = "run"]])
     \/ \* "connection was closed unexpectedly"
        /\ drv.rcvd = Len(wire)
        /\ TornDown
        /\ Commit([Cur EXCEPT !.drv.pc = "err"])

\* DriverOnEvent sending a Watch on a Stdin acknowledgement as well
DriverOnEventAckWatch(d, r) ==
  CASE ~r.ok -> [d EXCEPT !.pc = "err", !.pump = "dropped"]
    [] r.ok /\ r.name \in {"None", "Cancelled"} -> DriverSend(d, WatchFrame)
    [] r.ok /\ r.name = "Stdout" ->
         DriverSend([d EXCEPT !.out = d.out \o r.data], WatchFrame)
    [] r.ok /\ r.name = "Stderr" ->
         DriverSend([d EXCEPT !.err = d.err \o r.data], WatchFrame)
    [] r.ok /\ r.name = "Exited" ->
         [d EXCEPT !.pc = "done", !.code = r.code, !.pump = "dropped"]

\* the event pump's step on what recv returned, d being the driver after recv
DriverOnEvent(d, r) ==
  CASE ~r.ok -> [d EXCEPT !.pc = "err", !.pump = "dropped"]
    [] r.ok /\ r.name = "None" -> d
    [] r.ok /\ r.name = "Cancelled" -> DriverSend(d, WatchFrame)
    [] r.ok /\ r.name = "Stdout" ->
         DriverSend([d EXCEPT !.out = d.out \o r.data], WatchFrame)
    [] r.ok /\ r.name = "Stderr" ->
         DriverSend([d EXCEPT !.err = d.err \o r.data], WatchFrame)
    [] r.ok /\ r.name = "Exited" ->
         [d EXCEPT !.pc = "done", !.code = r.code, !.pump = "dropped"]

\* incoming_loop_fut: one reply received and acted on
DriverRecv ==
  /\ drv.pc = "loops"
  /\ \/ /\ drv.rcvd < Len(wire)
        /\ LET r == DriverRecvResult(wire[drv.rcvd + 1][2])
               d == DriverOnEvent([drv EXCEPT !.rcvd = drv.rcvd + 1], r)
           IN Commit([Cur EXCEPT !.drv =
                        IF d.pc = "err" THEN [d EXCEPT !.pump = "dropped"] ELSE d])
     \/ \* "connection was closed unexpectedly"
        /\ drv.rcvd = Len(wire)
        /\ TornDown
        /\ Commit([Cur EXCEPT !.drv.pc = "err", !.drv.pump = "dropped"])

\* stdin_loop_fut: one read of the local stdin, sent as a Stdin request; an
\* empty read is sent too and ends the pump
DriverStdin ==
  /\ drv.pc = "loops"
  /\ drv.pump = "run"
  /\ \/ /\ drv.nin < MaxStdin
        /\ LET d == DriverSend([drv EXCEPT !.nin = drv.nin + 1], StdinFrame)
           IN Commit([Cur EXCEPT !.drv =
                        IF d.pc = "err" THEN [d EXCEPT !.pump = "dropped"] ELSE d])
     \/ LET d == DriverSend(drv, StdinEofFrame)
        IN Commit([Cur EXCEPT !.drv =
                     IF d.pc = "err" THEN [d EXCEPT !.pump = "dropped"]
                     ELSE [d EXCEPT !.pump = "done"]])

\* pipe_loop_fut: one frame the driver sent is read
DriverPipeRead ==
  /\ task["pipe_loop"] = "run"
  /\ Len(replyQ) < ChannelCapacity
  /\ Len(requestQ) < ChannelCapacity
  /\ drv.sock # << >>
  /\ PipeFrame(Head(drv.sock), [Cur EXCEPT !.drv.sock = Tail(drv.sock)])

\* incoming.try_next() yields None: the driver's process has ended
DriverPipeEof ==
  /\ task["pipe_loop"] = "run"
  /\ drv.pc \in {"done", "err"}
  /\ drv.sock = << >>
  /\ Commit([Cur EXCEPT !.task["pipe_loop"] = "ok"])

\* pipe_loop_fut: one frame read from a client that opens a session with its
\* first frame and then watches it, with pass-through requests in between
ScriptRead ==
  /\ task["pipe_loop"] = "run"
  /\ Len(replyQ) < ChannelCapacity
  /\ Len(requestQ) < ChannelCapacity
  /\ Len(reqs) < MaxSession
  /\ \E f \in ScriptFrames(reqs) : PipeFrame(f, Cur)

\* (the reader of such a client ends only normally, which ends the pipeline,
\* so RouterEnd is never enabled)
ScriptNext ==
  \/ ScriptRead \/ PipeEof
  \/ ReplyWrite \/ ReplyEnd
  \/ RouterHandle \/ UpstreamReply \/ UpstreamGone
  \/ HandleExec \/ HandleStdinWatch \/ WatchEvent \/ WatchCancel \/ SessionEnd
  \/ ChildStdout \/ ChildStderr \/ ChildExit

\* the agent serving a client that follows the session protocol
ScriptSpec == Init /\ [][ScriptNext]_vars

\* RevExec::exec on a fresh connection to the agent
DriverInit ==
  /\ AgentInit
  /\ upstream = "none"
  /\ drv = [NoDriver EXCEPT !.pc = "exec"]
  /\ codec = NoCodec
  /\ flow = NoFlow
  /\ evt = NoEvt

DriverNext ==
  \/ DriverExec \/ DriverRecvExec \/ DriverRecv \/ DriverStdin
  \/ DriverPipeRead \/ DriverPipeEof
  \/ ReplyWrite \/ ReplyEnd
  \/ RouterHandle
  \/ HandleExec \/ HandleStdinWatch \/ WatchEvent \/ WatchCancel
  \/ ChildStdout \/ ChildStderr \/ ChildExit

\* the exec driver and the agent, connected
DriverSpec == DriverInit /\ [][DriverNext]_vars

(* ----------------------- driver and any peer -------------------------- *)
\* the reply frames a peer on the agent socket may send: the three reply
\* types, an unknown type, and SUCCESS with a body that is an Event
\* (Cancelled, Stdout, Exited) or is none (unknown opcode, short Exited)
PeerReplies ==
  { Failure, ExtensionFailure, SuccessEmpty, UpstreamAnswer,
    CancelledReply,
    SuccessEvent(EventIntoBytes("Stdout", ChildChunk("stdout", 0))),
    SuccessEvent(EventIntoBytes("Exited", 0)),
    SuccessEvent(<< 9 >>),
    SuccessEvent(<< EventCodeOf("Exited"), 0 >>) }

\* the peer reads the driver's next request and answers it with a frame of
\* its choice
PeerReply ==
  /\ drv.sock # << >>
  /\ Len(wire) < MaxPeer
  /\ \E m \in PeerReplies :
       Commit([Cur EXCEPT !.reqs = Append(reqs, Head(drv.sock)),
                          !.drv.sock = Tail(drv.sock),
                          !.wire = Append(wire, << Len(reqs) + 1, m >>)])

\* RevExec::exec on a connection to a peer that is not known to be the agent
PeerInit ==
  /\ AgentInit
  /\ upstream = "none"
  /\ drv = [NoDriver EXCEPT !.pc = "exec"]
  /\ codec = NoCodec
  /\ flow = NoFlow
  /\ evt = NoEvt

PeerNext ==
  \/ DriverExec \/ DriverRecvExec \/ DriverRecv \/ DriverStdin
  \/ PeerReply

\* the exec driver and an arbitrary peer
PeerSpec == PeerInit /\ [][PeerNext]_vars

(* ------------------- session, child and their pipes ------------------- *)
\* stdin_loop_fut: one chunk of the local stdin is sent as a Stdin request
FlowDriverStdin ==
  /\ flow.phase = "run"
  /\ flow.pumped < MaxPump
  /\ Commit([Cur EXCEPT !.flow.requests = Append(flow.requests, "Stdin"),
                        !.flow.pumped = flow.pumped + 1])

\* incoming_loop_fut: the reply to a Stdin is skipped, an event is answered
\* with the next Watch
FlowDriverRecv ==
  /\ flow.phase = "run"
  /\ flow.replies # << >>
  /\ Commit([Cur EXCEPT
       !.flow.replies = Tail(flow.replies),
       !.flow.requests = IF Head(flow.replies) = "ok" THEN flow.requests
                         ELSE Append(flow.requests, "Watch")])

\* handle_stdin_watch: the next request is peek_buf or comes from the channel
FlowNextRequest ==
  /\ flow.phase = "run"
  /\ flow.pos = "next"
  /\ flow.peek_buf # "none" \/ flow.requests # << >>
  /\ LET req == IF flow.peek_buf # "none" THEN flow.peek_buf
                ELSE Head(flow.requests)
     IN Commit([Cur EXCEPT
          !.flow.peek_buf = "none",
          !.flow.requests = IF flow.peek_buf # "none" THEN flow.requests
                            ELSE Tail(flow.requests),
          !.flow.pos = IF req = "Stdin" THEN "write_all" ELSE "watch"])

\* Request::Stdin: stdin.write_all(&bytes).await completes when the pipe takes
\* the bytes, and nothing else is polled until then
FlowWriteAll ==
  /\ flow.phase = "run"
  /\ flow.pos = "write_all"
  /\ flow.stdin < PipeCapacity
  /\ Commit([Cur EXCEPT !.flow.stdin = flow.stdin + 1,
                        !.flow.replies = Append(flow.replies, "ok"),
                        !.flow.pos = "next"])

\* Request::Watch, Either::Left: read_buf takes what the stdout pipe holds
FlowWatchRead ==
  /\ flow.phase = "run"
  /\ flow.pos = "watch"
  /\ flow.stdout > 0
  /\ Commit([Cur EXCEPT !.flow.stdout = 0,
                        !.flow.replies = Append(flow.replies, "Stdout"),
                        !.flow.pos = "next"])

\* Request::Watch, Either::Right: watch_fut is polled first and is pending,
\* the next request arrives
FlowWatchCancel ==
  /\ flow.phase = "run"
  /\ flow.pos = "watch"
  /\ flow.stdout = 0
  /\ flow.requests # << >>
  /\ Commit([Cur EXCEPT !.flow.peek_buf = Head(flow.requests),
                        !.flow.requests = Tail(flow.requests),
                        !.flow.replies = Append(flow.replies, "Cancelled"),
                        !.flow.pos = "next"])

\* the child reads a chunk of its stdin once it has written the last one
FlowChildRead ==
  /\ flow.phase = "run"
  /\ flow.held = 0
  /\ flow.stdin > 0
  /\ Commit([Cur EXCEPT !.flow.stdin = flow.stdin - 1, !.flow.held = 1])

\* the child writes what it read to its stdout when the pipe has room
FlowChildWrite ==
  /\ flow.phase = "run"
  /\ flow.held = 1
  /\ flow.stdout < PipeCapacity
  /\ Commit([Cur EXCEPT !.flow.stdout = flow.stdout + 1, !.flow.held = 0])

\* the child is spawned with its three pipes and the driver has sent its
\* first Watch
FlowInit ==
  /\ AgentInit
  /\ upstream = "none"
  /\ drv = NoDriver
  /\ codec = NoCodec
  /\ evt = NoEvt
  /\ flow = [NoFlow EXCEPT !.phase = "run", !.requests = << "Watch" >>]

FlowNext ==
  \/ FlowDriverStdin \/ FlowDriverRecv
  \/ FlowNextRequest \/ FlowWriteAll \/ FlowWatchRead \/ FlowWatchCancel
  \/ FlowChildRead \/ FlowChildWrite

\* the session of one child whose pipes have a capacity
FlowSpec == FlowInit /\ [][FlowNext]_vars

(* ---------------------------- frame codec ----------------------------- *)
\* impl Encoder<&Message> for Codec: what encode appends to dst
Encode(msg) ==
  PutU32(Len(msg.contents) + 1) \o << msg.message_type >> \o msg.contents

RECURSIVE EncodeAll(_)
\* the bytes FramedWrite has written after sending the messages ms in order
EncodeAll(ms) ==
  IF ms = << >> THEN << >> ELSE Encode(Head(ms)) \o EncodeAll(Tail(ms))

\* Decode advancing past the length prefix before the frame is complete
DecodeEager(src) ==
  LET none == [kind |-> "none", msg |-> Msg(0, << >>), rest |-> src]
  IN IF Len(src) < SizeOfU32 THEN none
     ELSE LET len == GetU32(src)
          IN IF len = 0 THEN [none EXCEPT !.kind = "err"]
             ELSE IF Len(src) - SizeOfU32 < len
             THEN [none EXCEPT !.rest = Drop(src, SizeOfU32)]
             ELSE [kind |-> "item",
                   msg |-> Msg(src[SizeOfU32 + 1],
                               SubSeq(src, SizeOfU32 + 2, SizeOfU32 + len)),
                   rest |-> Drop(src, SizeOfU32 + len)]

\* impl Decoder for Codec: decode on the buffer src, with what it leaves in
\* the buffer
Decode(src) ==
  LET none == [kind |-> "none", msg |-> Msg(0, << >>), rest |-> src]
  IN IF Len(src) < SizeOfU32 THEN none
     ELSE LET len == GetU32(src)
          IN IF len = 0 THEN [none EXCEPT !.kind = "err"]
             ELSE IF Len(src) - SizeOfU32 < len THEN none
             ELSE [kind |-> "item",
                   msg |-> Msg(src[SizeOfU32 + 1],
                               SubSeq(src, SizeOfU32 + 2, SizeOfU32 + len)),
                   rest |-> Drop(src, SizeOfU32 + len)]

\* the messages a peer encodes
CodecMsgs ==
  { Msg(t, c) : t \in {0, SSH_AGENTC_EXTENSION},
                c \in { << >>, << 0 >>, << 0, 0, 0, 1 >> } }

\* what follows the encoded messages on the stream: nothing, or a length
\* prefix of 0
CodecTails == { << >>, << 0, 0, 0, 0 >> }

\* the sequences of at most n messages
CodecSeqs(n) == UNION { [1..k -> CodecMsgs] : k \in 0..n }

\* a FramedRead over a stream that carries the encodings of some messages
CodecInit ==
  /\ AgentInit
  /\ upstream = "none"
  /\ drv = NoDriver
  /\ evt = NoEvt
  /\ flow = NoFlow
  /\ \E ms \in CodecSeqs(MaxFrames), tail \in CodecTails :
       codec = [phase |-> "run", msgs |-> ms, stream |-> EncodeAll(ms) \o tail,
                src |-> << >>, out |-> << >>, last |-> "new"]

\* FramedRead: one read of the stream adds a chunk to the buffer
CodecRead ==
  /\ codec.phase = "run"
  /\ codec.stream # << >>
  /\ \E k \in 1..Min(MaxChunk, Len(codec.stream)) :
       Commit([Cur EXCEPT !.codec.src = codec.src \o Take(codec.stream, k),
                          !.codec.stream = Drop(codec.stream, k),
                          !.codec.last = "read"])

\* FramedRead: one call of decode on the buffer
CodecPoll ==
  /\ codec.phase = "run"
  /\ LET r == Decode(codec.src)
     IN Commit([Cur EXCEPT
          !.codec.src = r.rest,
          !.codec.out = IF r.kind = "item" THEN Append(codec.out, r.msg)
                        ELSE codec.out,
          !.codec.phase = IF r.kind = "err" THEN "failed" ELSE "run",
          !.codec.last = r.kind])

CodecNext == CodecRead \/ CodecPoll

\* the frame codec alone, fed a stream in every chunking
CodecSpec == CodecInit /\ [][CodecNext]_vars

(* --------------------------- event format ----------------------------- *)
\* payloads of Stdout and Stderr events; the last is b"hello"
EventPayloads ==
  { << >>, << 0 >>, << 3, 0 >>, << 104, 101, 108, 108, 111 >> }

\* statuses of Exited events, the bounds of i32 among them
EventStatuses == { 0, 1, 42, 255, 256, -1, -256, 2147483647, -2147483647 - 1 }

\* enum Event
Events ==
  { [ok |-> TRUE, name |-> "Cancelled", data |-> << >>, code |-> 0] }
  \cup { [ok |-> TRUE, name |-> n, data |-> b, code |-> 0] :
           n \in {"Stdout", "Stderr"}, b \in EventPayloads }
  \cup { [ok |-> TRUE, name |-> "Exited", data |-> << >>, code |-> c] :
           c \in EventStatuses }

\* the bytes byte strings are made of
EventBytes == { 0, 1, 2, 3, 4, 255 }

\* the byte strings handed to try_from
EventStrings == UNION { [1..k -> EventBytes] : k \in 0..MaxEventLen }

\* an Event to encode, or a byte string to decode
EventInit ==
  /\ AgentInit
  /\ upstream = "none"
  /\ drv = NoDriver
  /\ codec = NoCodec
  /\ flow = NoFlow
  /\ \/ \E e \in Events : evt = [NoEvt EXCEPT !.phase = "event", !.ev = e]
     \/ \E b \in EventStrings : evt = [NoEvt EXCEPT !.phase = "bytes", !.bytes = b]

\* Event::into_bytes
EventEncode ==
  /\ evt.phase = "event"
  /\ Commit([Cur EXCEPT
       !.evt.phase = "bytes",
       !.evt.bytes = EventIntoBytes(evt.ev.name,
                        IF evt.ev.name = "Exited" THEN evt.ev.code
                        ELSE evt.ev.data)])

\* Event::try_from
EventDecode ==
  /\ evt.phase = "bytes"
  /\ Commit([Cur EXCEPT !.evt.phase = "decoded",
                        !.evt.back = EventTryFrom(evt.bytes)])

EventNext == EventEncode \/ EventDecode

\* the Event conversions alone
EventSpec == EventInit /\ [][EventNext]_vars

(* ------------------------------ claims -------------------------------- *)
FullWith(id, msg) == slots[id] = [st |-> "full", msg |-> msg]

Ended == \A t \in Tasks : task[t] # "run"

\* a frame of type EXTENSION whose envelope carries the recognized ext_type
Recognized(m) ==
  /\ m.message_type = SSH_AGENTC_EXTENSION
  /\ Len(m.contents) >= SizeOfU32 + Len(EXTENSION_TYPE)
  /\ Take(m.contents, SizeOfU32) = << 0, 0, 0, Len(EXTENSION_TYPE) >>
  /\ SubSeq(m.contents, SizeOfU32 + 1, SizeOfU32 + Len(EXTENSION_TYPE))
       = EXTENSION_TYPE

\* a frame of type EXTENSION with fewer than 4 bytes, or with an ext_type_len
\* larger than what follows it
MalformedEnvelope(m) ==
  /\ m.message_type = SSH_AGENTC_EXTENSION
  /\ \/ Len(m.contents) < SizeOfU32
     \/ GetU32(m.contents) > Len(m.contents) - SizeOfU32

\* a frame of type EXTENSION, well formed, of another ext_type
UnknownExtType(m) ==
  /\ m.message_type = SSH_AGENTC_EXTENSION
  /\ ~MalformedEnvelope(m)
  /\ ~Recognized(m)

\* C1: the k-th reply frame written to the connection answers the k-th request
\* read from it: no reply is written before the reply to an earlier request.
C1_ReplyOrdering == \A k \in 1..Len(wire) : wire[k][1] = k

\* the first reply is written, the writer waits for the second slot while the
\* third, handled later, has already resolved
C1_Witness ==
  /\ Len(reqs) = 3
  /\ Len(wire) = 1
  /\ slots[2].st = "empty"
  /\ slots[3].st = "full"

\* C2: no request is answered twice, and once the pipeline has ended every
\* request that was read has its reply frame on the wire.
C2_ExactlyOneReply ==
  /\ \A i, j \in 1..Len(wire) : wire[i][1] = wire[j][1] => i = j
  /\ Ended => \A id \in 1..Len(reqs) : \E k \in 1..Len(wire) : wire[k][1] = id

\* C3: every request handed to the session is a well-formed EXTENSION of the
\* recognized ext_type, handed over as its payload, and no such request is
\* among the frames written to the upstream agent.
C3_RoutingSeparation ==
  /\ \A k \in 1..Len(handed) : Recognized(reqs[handed[k]])
  /\ \A e \in Range(revExtQ) \cup Range(peek_buf) :
       /\ Recognized(reqs[e.id])
       /\ e.bytes = Drop(reqs[e.id].contents, SizeOfU32 + Len(EXTENSION_TYPE))
  /\ \A k \in 1..Len(upstreamLog) : ~Recognized(upstreamLog[k])

\* all three routes were taken: a request went to the session, one to the
\* upstream, and an extension of another ext_type was refused
C3_Witness ==
  /\ routed = 3
  /\ Len(handed) = 1
  /\ Len(upstreamLog) = 1
  /\ \E id \in 1..3 : UnknownExtType(reqs[id]) /\ FullWith(id, Failure)

\* C4: when the router takes up an EXTENSION request whose envelope is
\* malformed or whose ext_type is not the recognized one, that step places
\* AGENT_FAILURE in the request's slot and leaves the router running.
C4_BadExtensionFails ==
  [][ ( /\ routed' = routed + 1
        /\ \/ MalformedEnvelope(reqs[routed + 1])
           \/ UnknownExtType(reqs[routed + 1]) )
      => ( /\ slots'[routed + 1] = [st |-> "full", msg |-> Failure]
           /\ task'["router"] = "run" ) ]_vars

\* a too-short envelope, another ext_type and an oversized ext_type_len were
\* each refused in turn by a router that is still running
C4_Witness ==
  /\ routed = 3
  /\ Len(reqs[1].contents) < SizeOfU32
  /\ UnknownExtType(reqs[2])
  /\ MalformedEnvelope(reqs[3]) /\ Len(reqs[3].contents) >= SizeOfU32
  /\ \A id \in 1..3 : FullWith(id, Failure)
  /\ task["router"] = "run"
  /\ upstream = "open"

\* C5 as stated: with an upstream configured, an EXTENSION request of another
\* ext_type that the router has taken up was written verbatim to the upstream,
\* is answered by the upstream's reply, and was not handed to the session.
C5_UnknownTypeForwarded ==
  \A id \in 1..routed :
    (UnknownExtType(reqs[id]) /\ upstream = "open" /\ task["router"] = "run")
    => /\ reqs[id] \in Range(upstreamLog)
       /\ slots[id].st = "full" => slots[id].msg = UpstreamAnswer
       /\ id \notin Range(handed)

\* C5 amended: an EXTENSION request of another ext_type is never written to
\* the upstream and never handed to the session; the router answers it with
\* AGENT_FAILURE itself, whether an upstream is configured or not.
C5_UnknownTypeRefused ==
  \A id \in 1..Len(reqs) :
    UnknownExtType(reqs[id])
    => /\ reqs[id] \notin Range(upstreamLog)
       /\ id \notin Range(handed)
       /\ slots[id].st = "full" => slots[id].msg = Failure
       /\ (id <= routed /\ task["router"] = "run") => slots[id].st = "full"

\* with an upstream that answers, an extension of another ext_type was refused
\* and a pass-through request after it was forwarded and answered
C5_Witness ==
  /\ routed >= 2
  /\ UnknownExtType(reqs[1]) /\ FullWith(1, Failure)
  /\ upstreamLog = << reqs[2] >>
  /\ FullWith(2, UpstreamAnswer)

\* the payload the session receives for request id
PayloadOf(id) == Drop(reqs[id].contents, SizeOfU32 + Len(EXTENSION_TYPE))

IsExecReq(id) ==
  Recognized(reqs[id]) /\ PayloadOf(id) # << >> /\ PayloadOf(id)[1] = 0

IsStdinReq(id) ==
  Recognized(reqs[id]) /\ PayloadOf(id) # << >> /\ PayloadOf(id)[1] = 1

IsWatchReq(id) ==
  Recognized(reqs[id]) /\ PayloadOf(id) # << >> /\ PayloadOf(id)[1] = 2

\* the session takes up request id in this step
Takes(id) == processed' = Append(processed, id)

QueueIds(q) == [ k \in 1..Len(q) |-> q[k].id ]

\* C6: at most one child is ever spawned on a connection, and a session that
\* takes up an Exec after the spawn answers it with EXTENSION_FAILURE and
\* leaves the child and its stdin, stdout and stderr handles as they were.
C6_AtMostOneExec ==
  /\ [](spawned <= 1)
  /\ [][ \A id \in 1..Len(reqs) :
           (Takes(id) /\ spawned >= 1 /\ IsExecReq(id))
           => /\ slots'[id] = [st |-> "full", msg |-> ExtensionFailure]
              /\ spawned' = spawned
              /\ running' = running
              /\ proc' = proc ]_vars

\* a first Exec was honoured and a second one refused
C6_Witness ==
  /\ spawned = 1
  /\ \E i, j \in 1..Len(processed) :
       /\ i < j
       /\ reqs[processed[i]] = ExecFrame /\ FullWith(processed[i], SuccessEmpty)
       /\ reqs[processed[j]] = ExecFrame /\ FullWith(processed[j], ExtensionFailure)
  /\ running.stdin = "open"
  /\ proc.state = "alive"

\* an empty Stdin was taken up by a session that holds a child
EofHandled ==
  \E id \in Range(processed) :
    IsStdinReq(id) /\ Len(PayloadOf(id)) = 1 /\ FullWith(id, SuccessEmpty)

\* C7: once a session holding a child has handled an empty Stdin the stdin
\* handle is closed and never opens again, and every Stdin the session takes
\* up afterwards is answered with EXTENSION_FAILURE and writes nothing to the
\* child.
C7_StdinEofIdempotent ==
  /\ [](EofHandled => running.stdin = "closed")
  /\ [][running.stdin = "closed" => running'.stdin = "closed"]_vars
  /\ [][ \A id \in 1..Len(reqs) :
           (Takes(id) /\ EofHandled /\ IsStdinReq(id))
           => /\ slots'[id] = [st |-> "full", msg |-> ExtensionFailure]
              /\ proc'.stdin = proc.stdin ]_vars

\* Exec, an empty Stdin, then a Stdin with data, which is refused
C7_Witness ==
  /\ reqs = << ExecFrame, StdinEofFrame, StdinFrame >>
  /\ FullWith(2, SuccessEmpty)
  /\ FullWith(3, ExtensionFailure)
  /\ running.stdin = "closed"
  /\ proc.stdin = << >>

\* C8: the session takes up the requests in the order the router handed them
\* over, the peeked one first; a pending Watch that ends with no child event
\* ready is answered with Cancelled while the interrupting request, not yet
\* answered, is held in the peek buffer; and the Cancelled reply is on the
\* wire before the interrupting request's reply.
C8_WatchCancellation ==
  /\ [](task["rev_ext"] = "run"
        => handed = processed \o QueueIds(peek_buf) \o QueueIds(revExtQ))
  /\ [](peek_buf # << >>
        => /\ Len(peek_buf) = 1
           /\ processed # << >>
           /\ FullWith(processed[Len(processed)], CancelledReply)
           /\ slots[peek_buf[1].id].st = "empty")
  /\ [][ ( /\ sess = "watch"
           /\ sess' = "handle_stdin_watch"
           /\ ~WatchPoll(running, proc).ready )
         => /\ slots'[watchCur] = [st |-> "full", msg |-> CancelledReply]
            /\ revExtQ # << >>
            /\ peek_buf' = << Head(revExtQ) >>
            /\ revExtQ' = Tail(revExtQ) ]_vars
  /\ [](\A k \in 1..(Len(processed) - 1) :
          FullWith(processed[k], CancelledReply)
          => \A j \in 1..Len(wire) :
               wire[j][1] = processed[k + 1]
               => \E i \in 1..(j - 1) :
                    wire[i] = << processed[k], CancelledReply >>)

\* a Watch cancelled by a Stdin that is held in the peek buffer, answered
\* Cancelled, while a later request already waits in the channel behind it
C8_Witness ==
  /\ reqs = << ExecFrame, WatchFrame, StdinFrame, StdinEofFrame >>
  /\ processed = << 1, 2 >>
  /\ QueueIds(peek_buf) = << 3 >>
  /\ QueueIds(revExtQ) = << 4 >>
  /\ FullWith(2, CancelledReply)
  /\ wire = << << 1, SuccessEmpty >>, << 2, CancelledReply >> >>

WatchInterrupted ==
  task["rev_ext"] = "run" /\ sess = "watch" /\ revExtQ # << >>

C10_ChildTerminated ==
  /\ task["rev_ext"] # "run" => proc.state # "alive"
  /\ (task["rev_ext"] # "run" /\ spawned > 0) => running.child = "dropped"
  /\ proc.state = "killed" => task["rev_ext"] # "run"

\* the pipeline was torn down by another sub-task while the child was alive
C10_Witness ==
  /\ task["rev_ext"] = "dropped"
  /\ spawned = 1
  /\ proc.state = "killed"

DriverEnded == drv.pc \in {"done", "err"}

\* C12: once the child has exited with code c, an exec driver that has
\* terminated has returned exactly c.
C12_ExitCodePropagated ==
  (DriverEnded /\ proc.state = "exited")
  => (drv.pc = "done" /\ drv.code = proc.code)

\* the event a Watch request was answered with: its name and its bytes
WatchAnswer(id) ==
  IF /\ id \in 1..Len(slots)
     /\ IsWatchReq(id)
     /\ slots[id].st = "full"
     /\ slots[id].msg.message_type = SSH_AGENT_SUCCESS
  THEN EventTryFrom(slots[id].msg.contents)
  ELSE [ok |-> FALSE, name |-> "none", data |-> << >>, code |-> 0]

\* the session answers request id in this step
Answers(id) ==
  /\ id \in 1..Len(slots)
  /\ slots[id].st = "empty"
  /\ slots'[id].st = "full"

\* C13: within a session no Stdout or Stderr event is delivered after an
\* Exited event; Exited is delivered only once both output handles are
\* closed, and a live session closes an output handle only in the step that
\* reports an empty read of that stream.
C13_ExitedLast ==
  /\ [](\A i, j \in 1..Len(slots) :
          (i < j /\ WatchAnswer(i).name = "Exited")
          => WatchAnswer(j).name \notin {"Stdout", "Stderr"})
  /\ [][ \A id \in 1..Len(slots) :
           (Answers(id) /\ WatchAnswer(id)'.name = "Exited")
           => /\ running.stdout = "closed" /\ running.stderr = "closed"
              /\ proc.out = << >> /\ proc.err = << >> ]_vars
  /\ [][ (task'["rev_ext"] = "run" /\ running.stdout = "open"
                                  /\ running'.stdout # "open")
         => \E id \in 1..Len(slots) :
              /\ Answers(id)
              /\ WatchAnswer(id)'.name = "Stdout"
              /\ WatchAnswer(id)'.data = << >> ]_vars
  /\ [][ (task'["rev_ext"] = "run" /\ running.stderr = "open"
                                  /\ running'.stderr # "open")
         => \E id \in 1..Len(slots) :
              /\ Answers(id)
              /\ WatchAnswer(id)'.name = "Stderr"
              /\ WatchAnswer(id)'.data = << >> ]_vars

\* a chunk of output, both empty reads and then the exit, on the wire
C13_Witness ==
  /\ Len(wire) = 5
  /\ \A k \in 1..5 : wire[k][1] = k
  /\ wire[2][2] = SuccessEvent(EventIntoBytes("Stdout", ChildChunk("stdout", 0)))
  /\ wire[3][2] = SuccessEvent(EventIntoBytes("Stdout", << >>))
  /\ wire[4][2] = SuccessEvent(EventIntoBytes("Stderr", << >>))
  /\ wire[5][2] = SuccessEvent(EventIntoBytes("Exited", 42))

RECURSIVE ChildWritten(_, _)
\* the bytes of the first n chunks the child wrote to a stream
ChildWritten(stream, n) ==
  IF n = 0 THEN << >>
  ELSE ChildWritten(stream, n - 1) \o ChildChunk(stream, n - 1)

\* C14: when the session of an exec driver is over, the bytes the driver
\* wrote to its local stdout are exactly the bytes the child wrote to its
\* stdout, and likewise for stderr.
C14_OutputIntegrity ==
  (DriverEnded /\ proc.state = "exited")
  => /\ drv.out = ChildWritten("stdout", proc.nout)
     /\ drv.err = ChildWritten("stderr", proc.nerr)

\* the router ended in forward_to_upstream: request id was written to the
\* upstream agent, which closed before it replied
ClosedMidCall(id) ==
  /\ task["router"] = "err"
  /\ id = routed
  /\ Route(reqs[id]) = "upstream"
  /\ slots[id].st = "dropped"
  /\ Len(upstreamLog) = Cardinality({ j \in 1..id : Route(reqs[j]) = "upstream" })

\* C15: when the upstream agent closes while a forwarded request awaits its
\* reply, the connection does not end before AGENT_FAILURE was written as the
\* reply to that request, and the session has ended with its child no longer
\* alive.
C15_UpstreamClosure ==
  \A id \in 1..Len(reqs) :
    (ClosedMidCall(id) /\ Ended)
    => /\ \E k \in 1..Len(wire) : wire[k] = << id, Failure >>
       /\ task["rev_ext"] # "run"
       /\ proc.state # "alive"

\* the session ended in handle_exec because command.spawn() failed
SpawnFailed == task["rev_ext"] = "err" /\ spawned = 0

ExitedDelivered ==
  \E id \in 1..Len(slots) : WatchAnswer(id).name = "Exited"

\* C17 as stated: Exited is delivered at most once, and the Watch it answers
\* is the last request the session ever takes up.
C17_FinishedState ==
  \A i \in 1..Len(slots) :
    WatchAnswer(i).name = "Exited"
    => /\ processed[Len(processed)] = i
       /\ \A j \in 1..Len(slots) : WatchAnswer(j).name = "Exited" => j = i

\* C17 amended: delivering Exited does not end the session. The step that
\* delivers it leaves the session running, and afterwards the session returns
\* normally only when its request channel is closed; a Watch it takes up then
\* is not left pending, the exit is ready for it at once, and every event
\* delivered after an Exited is the same Exited again.
C17_NoFinishedState ==
  /\ [][ \A id \in 1..Len(slots) :
           (Answers(id) /\ WatchAnswer(id)'.name = "Exited")
           => task'["rev_ext"] = "run" ]_vars
  /\ [][ (ExitedDelivered /\ task["rev_ext"] = "run"
                          /\ task'["rev_ext"] = "ok")
         => task["router"] # "run" ]_vars
  /\ []((ExitedDelivered /\ task["rev_ext"] = "run" /\ sess = "watch")
        => /\ WatchPoll(running, proc).ready
           /\ WatchPoll(running, proc).name = "Exited")
  /\ [](\A i, j \in 1..Len(slots) :
          (i < j /\ WatchAnswer(i).name = "Exited"
                 /\ WatchAnswer(j).name \notin {"none", "Cancelled"})
          => WatchAnswer(j) = WatchAnswer(i))

\* Exited is on the wire twice and the session is still running
C17_Witness ==
  /\ Len(wire) = 5
  /\ wire[4] = << 4, SuccessEvent(EventIntoBytes("Exited", 42)) >>
  /\ wire[5] = << 5, SuccessEvent(EventIntoBytes("Exited", 42)) >>
  /\ task["rev_ext"] = "run"

\* C18: when the session has ended and the connection is still open, a
\* request of the recognized extension type that the router takes up is
\* answered AGENT_FAILURE by the router, which stays in service for the
\* pass-through requests that follow.
C18_Degradation ==
  [][ \A id \in 1..Len(reqs) :
        (/\ task["rev_ext"] = "err" /\ task["router"] = "run"
         /\ requestQ # << >> /\ Head(requestQ) = id
         /\ routed' = routed + 1
         /\ Route(reqs[id]) = "rev_ext")
        => /\ task'["router"] = "run"
           /\ slots'[id] = [st |-> "full", msg |-> Failure] ]_vars

\* every frame the driver has sent, in order: those the agent has read and
\* those still on the connection
DriverSent == reqs \o drv.sock

\* the Watch requests the driver has sent and has received no reply to
OutstandingWatch ==
  { k \in 1..Len(DriverSent) : k > drv.rcvd /\ DriverSent[k] = WatchFrame }

\* the driver sends a Watch in this step
SendsWatch ==
  /\ Len(DriverSent') = Len(DriverSent) + 1
  /\ DriverSent'[Len(DriverSent')] = WatchFrame

\* C19: the driver never has more than one Watch sent and unanswered. It
\* sends a Watch only in the step in which it receives the Exec reply or the
\* event reply (Cancelled, Stdout or Stderr) to its previous Watch, which then
\* was its only outstanding one; it sends none on a Stdin acknowledgement and
\* nothing at all after Exited.
C19_OneOutstandingWatch ==
  /\ [](Cardinality(OutstandingWatch) <= 1)
  /\ [][ SendsWatch =>
          /\ drv.rcvd < Len(wire)
          /\ drv'.rcvd = drv.rcvd + 1
          /\ LET r == DriverRecvResult(wire[drv.rcvd + 1][2])
             IN \/ /\ drv.pc = "recv_exec"
                   /\ DriverSent[drv.rcvd + 1] = ExecFrame
                   /\ r.ok
                \/ /\ drv.pc = "loops"
                   /\ OutstandingWatch = { drv.rcvd + 1 }
                   /\ r.ok /\ r.name \in {"Cancelled", "Stdout", "Stderr"} ]_vars
  /\ [][ (/\ drv.pc = "loops" /\ drv'.rcvd = drv.rcvd + 1
          /\ DriverSent[drv.rcvd + 1] \in {StdinFrame, StdinEofFrame})
         => ~SendsWatch ]_vars
  /\ [](drv.pc = "done" => OutstandingWatch = {})
  /\ [][ drv.pc = "done" => DriverSent' = DriverSent ]_vars

\* the driver has received a Cancelled, a Stdout chunk and a Stdin
\* acknowledgement, and its one Watch is outstanding
C19_Witness ==
  /\ drv.pc = "loops"
  /\ Cardinality(OutstandingWatch) = 1
  /\ \E k \in 1..drv.rcvd : wire[k][2] = CancelledReply
  /\ \E k \in 1..drv.rcvd :
       wire[k][2] = SuccessEvent(EventIntoBytes("Stdout", ChildChunk("stdout", 0)))
  /\ \E k \in 1..drv.rcvd :
       DriverSent[k] = StdinFrame /\ wire[k][2] = SuccessEmpty

\* C20 as stated: the reply to a pass-through request that the upstream
\* answered while a Watch was pending is on the wire before a Cancelled reply
\* to that Watch.
C20_ReplyBeforeCancelled ==
  \A p \in early :
    \A k \in 1..Len(wire) :
      wire[k] = << p[2], CancelledReply >>
      => \E j \in 1..(k - 1) : wire[j][1] = p[1]

\* C20 amended: a pass-through request sent after a Watch is handled while
\* that Watch is pending, its slot holds the upstream's answer before the
\* Watch is resolved; it gets at most one reply, the upstream's answer, and
\* that reply is written only after the reply to the Watch.
C20_HandledNotWrittenFirst ==
  /\ [](\A p \in early :
          /\ p[2] < p[1]
          /\ IsWatchReq(p[2])
          /\ Route(reqs[p[1]]) = "upstream"
          /\ FullWith(p[1], UpstreamAnswer)
          /\ \A j, k \in 1..Len(wire) :
               (wire[j][1] = p[1] /\ wire[k][1] = p[1]) => j = k
          /\ \A k \in 1..Len(wire) :
               wire[k][1] = p[1]
               => /\ wire[k][2] = UpstreamAnswer
                  /\ \E j \in 1..(k - 1) : wire[j][1] = p[2])
  /\ [][ (/\ task["rev_ext"] = "run" /\ sess = "watch"
          /\ forwarding > watchCur
          /\ slots'[forwarding].st = "full")
         => /\ sess' = "watch" /\ watchCur' = watchCur
            /\ slots'[watchCur].st = "empty"
            /\ << forwarding, watchCur >> \in early' ]_vars

\* the Watch was cancelled by a later Watch after the upstream had answered:
\* Cancelled is written first, the pass-through reply after it
C20_Witness ==
  /\ << 3, 2 >> \in early
  /\ wire = << << 1, SuccessEmpty >>, << 2, CancelledReply >>,
               << 3, UpstreamAnswer >> >>

\* this step is a call of decode
Polls == codec' # codec /\ codec'.last # "read"

\* fewer than 4 + L bytes of the current frame are in the buffer
Incomplete(src) ==
  \/ Len(src) < SizeOfU32
  \/ Len(src) - SizeOfU32 < GetU32(src)

\* the messages not yet decoded
Undecoded == SubSeq(codec.msgs, Len(codec.out) + 1, Len(codec.msgs))

\* C21: under every chunking the decoder yields exactly the encoded messages
\* in order, all of them once the stream is read; a call of decode on an
\* incomplete frame yields nothing and leaves the buffer as it is, a call on a
\* complete one yields the next message; a length prefix of 0 fails the
\* stream and nothing else does.
C21_FrameRoundTrip ==
  /\ [](codec.phase # "idle" =>
          /\ Len(codec.out) <= Len(codec.msgs)
          /\ codec.out = Take(codec.msgs, Len(codec.out))
          /\ LET rest == codec.src \o codec.stream
                 enc == EncodeAll(Undecoded)
             IN /\ Len(enc) <= Len(rest)
                /\ Take(rest, Len(enc)) = enc
                /\ Drop(rest, Len(enc)) \in CodecTails)
  /\ []((codec.phase = "run" /\ codec.stream = << >> /\ codec.last = "none")
        => codec.out = codec.msgs /\ codec.src = << >>)
  /\ [][ (Polls /\ Incomplete(codec.src))
         => /\ codec'.last = "none" /\ codec'.phase = "run"
            /\ codec'.src = codec.src /\ codec'.out = codec.out ]_vars
  /\ [][ (Polls /\ ~Incomplete(codec.src) /\ GetU32(codec.src) # 0)
         => /\ codec'.last = "item" /\ codec'.phase = "run"
            /\ Len(codec.out) < Len(codec.msgs)
            /\ codec'.out = Append(codec.out, codec.msgs[Len(codec.out) + 1])
            /\ codec.src = Encode(codec.msgs[Len(codec.out) + 1]) \o codec'.src ]_vars
  /\ [][ (Polls /\ Len(codec.src) >= SizeOfU32
                /\ Take(codec.src, SizeOfU32) = << 0, 0, 0, 0 >>)
         => codec'.phase = "failed" ]_vars
  /\ [](codec.phase = "failed" =>
          /\ Take(codec.src, SizeOfU32) = << 0, 0, 0, 0 >>
          /\ codec.out = codec.msgs)

\* the first of two messages is decoded and decode has yielded nothing on the
\* second, whose length prefix and more are in the buffer
C21_Witness ==
  /\ codec.phase = "run"
  /\ Len(codec.msgs) = 2 /\ Len(codec.out) = 1
  /\ codec.out[1] = Msg(SSH_AGENTC_EXTENSION, << 0, 0, 0, 1 >>)
  /\ codec.last = "none"
  /\ Len(codec.src) > SizeOfU32
  /\ codec.stream # << >>

\* the i32 that the four bytes b stand for, big endian
BigEndianI32(b) ==
  (IF b[1] >= 128 THEN b[1] - 256 ELSE b[1]) * 16777216
  + b[2] * 65536 + b[3] * 256 + b[4]

\* C22: an Event encodes as its opcode byte (Cancelled 0, Stdout 1, Stderr 2,
\* Exited 3) followed by its payload verbatim, the status of Exited as 4
\* big-endian bytes; decoding that encoding returns the Event; and a byte
\* string fails to decode exactly when it is empty, starts with an unknown
\* opcode, or is an Exited with fewer than 4 bytes of payload.
C22_EventWireFormat ==
  /\ (evt.phase \in {"bytes", "decoded"} /\ evt.ev.name # "none") =>
       /\ evt.bytes # << >>
       /\ evt.ev.name = "Cancelled" => evt.bytes = << 0 >>
       /\ evt.ev.name = "Stdout" => evt.bytes = << 1 >> \o evt.ev.data
       /\ evt.ev.name = "Stderr" => evt.bytes = << 2 >> \o evt.ev.data
       /\ evt.ev.name = "Exited" =>
            /\ Len(evt.bytes) = 5
            /\ evt.bytes[1] = 3
            /\ \A i \in 2..5 : evt.bytes[i] \in 0..255
            /\ BigEndianI32(Drop(evt.bytes, 1)) = evt.ev.code
  /\ (evt.phase = "decoded" /\ evt.ev.name # "none") => evt.back = evt.ev
  /\ evt.phase = "decoded" =>
       (~evt.back.ok <=>
          \/ evt.bytes = << >>
          \/ evt.bytes[1] \notin {0, 1, 2, 3}
          \/ evt.bytes[1] = 3 /\ Len(evt.bytes) < 5)

\* Exited(-1) went through both conversions
C22_Witness ==
  /\ evt.phase = "decoded"
  /\ evt.ev.name = "Exited" /\ evt.ev.code = -1
  /\ evt.bytes = << 3, 255, 255, 255, 255 >>
  /\ evt.back.ok /\ evt.back.code = -1

\* the session answers the Watch request id with a child event in this step
AnswersEvent(id) ==
  /\ Answers(id)
  /\ WatchAnswer(id)'.name \in {"Stdout", "Stderr", "Exited"}

\* C23 as stated: a child exit that happens while stdout or stderr is still
\* open, with nothing left to read from them, resolves the Watch with Exited.
C23_ExitWinsRace ==
  [][ \A id \in 1..Len(slots) :
        (/\ AnswersEvent(id)
         /\ proc.state = "exited"
         /\ proc.out = << >> /\ proc.err = << >>)
        => WatchAnswer(id)'.name = "Exited" ]_vars

\* C23 amended: the child's exit takes no part in the race while an output
\* handle is open. A Watch is resolved with Exited only when both handles are
\* closed and the child has exited, with the exit code, or 0 when the child
\* was killed by a signal; while a handle is open an exited child resolves
\* the Watch with a read of an open stream, stdout before stderr, which
\* reports what is left in the pipe or the empty read that closes the handle.
C23_ExitAfterStreams ==
  /\ [][ \A id \in 1..Len(slots) :
          (AnswersEvent(id) /\ WatchAnswer(id)'.name = "Exited")
          => /\ running.stdout = "closed" /\ running.stderr = "closed"
             /\ proc.state = "exited"
             /\ WatchAnswer(id)'.code = IF proc.signaled THEN 0 ELSE proc.code ]_vars
  /\ [][ \A id \in 1..Len(slots) :
          (/\ AnswersEvent(id)
           /\ proc.state = "exited"
           /\ running.stdout = "open" \/ running.stderr = "open")
          => LET a == WatchAnswer(id)'
             IN IF running.stdout = "open"
                THEN /\ a.name = "Stdout" /\ a.data = proc.out
                     /\ running'.stdout = IF proc.out = << >> THEN "closed"
                                          ELSE "open"
                ELSE /\ a.name = "Stderr" /\ a.data = proc.err
                     /\ running'.stderr = IF proc.err = << >> THEN "closed"
                                          ELSE "open" ]_vars

\* a child killed by a signal: the last three Watches were resolved by the
\* empty read of stdout, by that of stderr, and only then with Exited(0),
\* which the driver returned
C23_Witness ==
  /\ proc.signaled
  /\ drv.pc = "done" /\ drv.code = 0
  /\ Len(wire) >= 4
  /\ wire[Len(wire) - 2][2] = SuccessEvent(EventIntoBytes("Stdout", << >>))
  /\ wire[Len(wire) - 1][2] = SuccessEvent(EventIntoBytes("Stderr", << >>))
  /\ wire[Len(wire)][2] = SuccessEvent(EventIntoBytes("Exited", 0))

\* C24: when the reply to Exec is anything but SUCCESS with an empty body the
\* driver fails, having sent nothing but the Exec.
C24_ExecHandshake ==
  (drv.rcvd >= 1 /\ wire[1][2] # SuccessEmpty)
  => /\ drv.pc = "err"
     /\ reqs \o drv.sock = << ExecFrame >>

\* the session is blocked in write_all on a full stdin pipe and the child is
\* blocked writing to a full stdout pipe
FlowDeadlocked ==
  /\ flow.pos = "write_all"
  /\ flow.stdin = PipeCapacity
  /\ flow.held = 1
  /\ flow.stdout = PipeCapacity

\* C25: no reachable state has the session blocked writing Stdin bytes into
\* a full stdin pipe while the child is blocked on a full stdout pipe.
C25_NoBackPressureDeadlock == ~FlowDeadlocked
====
